---------------------------- MODULE Spec2Model ----------------------------
(***************************************************************************)
(* Model of the SplitStorage durable object (the transactional store      *)
(* engine) and of SplitStorageWrapper (the remote storage adapter).       *)
(*                                                                        *)
(* Strings of the program are sequences of one-character strings, so that *)
(* URL building/parsing and JSON encoding/decoding are computed and not   *)
(* assumed to be the identity.                                            *)
(***************************************************************************)
EXTENDS Integers, Sequences, FiniteSets, TLC

(***************************************************************************)
(* JavaScript values, tagged.                                             *)
(***************************************************************************)
Undef == [t |-> "undef"]
Null == [t |-> "null"]
Str(s) == [t |-> "str", s |-> s]
Num(n) == [t |-> "num", n |-> n]
Bool(b) == [t |-> "bool", b |-> b]
Arr(l) == [t |-> "arr", l |-> l]
SetV(m) == [t |-> "set", m |-> m]
Obj == [t |-> "obj"]

\* JavaScript truthiness, as used by `x || null`, `x ? a : b`, `if (x)`.
Truthy(v) ==
  CASE v.t = "undef" -> FALSE
    [] v.t = "null" -> FALSE
    [] v.t = "str" -> v.s # <<>>
    [] v.t = "num" -> v.n # 0
    [] v.t = "bool" -> v.b
    [] OTHER -> TRUE

\* `x || y`
OrElse(x, y) == IF Truthy(x) THEN x ELSE y

(***************************************************************************)
(* Text helpers.                                                          *)
(***************************************************************************)
RECURSIVE IndexFrom(_, _, _)
\* least i >= from with s[i] = c, or 0
IndexFrom(s, c, from) ==
  IF from > Len(s) THEN 0
  ELSE IF s[from] = c THEN from
  ELSE IndexFrom(s, c, from + 1)

IndexOf(s, c) == IndexFrom(s, c, 1)

RECURSIVE Split(_, _)
\* String.prototype.split(c): "".split(",") is [""], "a,b".split(",") is ["a","b"]
Split(s, c) ==
  LET i == IndexOf(s, c)
  IN IF i = 0 THEN <<s>>
     ELSE <<SubSeq(s, 1, i - 1)>> \o Split(SubSeq(s, i + 1, Len(s)), c)

RECURSIVE Join(_, _)
\* Array.prototype.join(c) of an array of strings
Join(l, c) ==
  IF l = <<>> THEN <<>>
  ELSE IF Len(l) = 1 THEN l[1]
  ELSE l[1] \o <<c>> \o Join(Tail(l), c)

IsPrefix(p, s) == Len(p) <= Len(s) /\ SubSeq(s, 1, Len(p)) = p

(***************************************************************************)
(* URL parsing: new URL(request.url).searchParams.get(name).              *)
(* A request URL is its pathname (a literal of the adapter, always before *)
(* the first "?") and the text the adapter appends after it.              *)
(***************************************************************************)
HexVal(c) ==
  CASE c = "0" -> 0 [] c = "1" -> 1 [] c = "2" -> 2 [] c = "3" -> 3
    [] c = "4" -> 4 [] c = "5" -> 5 [] c = "6" -> 6 [] c = "7" -> 7
    [] c = "8" -> 8 [] c = "9" -> 9 [] c = "A" -> 10 [] c = "B" -> 11
    [] c = "C" -> 12 [] c = "D" -> 13 [] c = "E" -> 14 [] c = "F" -> 15
    [] c = "a" -> 10 [] c = "b" -> 11 [] c = "c" -> 12 [] c = "d" -> 13
    [] c = "e" -> 14 [] c = "f" -> 15 [] OTHER -> -1

\* the character with a given code, for the codes the model's texts can spell
CharOfCode(n) ==
  CASE n = 35 -> "#" [] n = 37 -> "%" [] n = 38 -> "&" [] n = 43 -> "+"
    [] n = 44 -> "," [] n = 61 -> "=" [] n = 32 -> " " [] OTHER -> "?"

RECURSIVE PercentDecode(_)
\* application/x-www-form-urlencoded decoding of one name or value
PercentDecode(s) ==
  IF s = <<>> THEN <<>>
  ELSE IF s[1] = "+" THEN <<" ">> \o PercentDecode(Tail(s))
  ELSE IF s[1] = "%" /\ Len(s) >= 3 /\ HexVal(s[2]) >= 0 /\ HexVal(s[3]) >= 0
       THEN <<CharOfCode(16 * HexVal(s[2]) + HexVal(s[3]))>>
            \o PercentDecode(SubSeq(s, 4, Len(s)))
  ELSE <<s[1]>> \o PercentDecode(Tail(s))

\* url.search without the leading "?": the text between the first "?" and
\* the first "#"
QueryOf(tail) ==
  LET h == IndexOf(tail, "#")
      noFrag == IF h = 0 THEN tail ELSE SubSeq(tail, 1, h - 1)
      q == IndexOf(noFrag, "?")
  IN IF q = 0 THEN <<>> ELSE SubSeq(noFrag, q + 1, Len(noFrag))

\* one "name=value" piece as a decoded pair
PairOf(piece) ==
  LET e == IndexOf(piece, "=")
  IN IF e = 0 THEN [name |-> PercentDecode(piece), value |-> <<>>]
     ELSE [name |-> PercentDecode(SubSeq(piece, 1, e - 1)),
           value |-> PercentDecode(SubSeq(piece, e + 1, Len(piece)))]

RECURSIVE FirstParam(_, _)
FirstParam(pieces, name) ==
  IF pieces = <<>> THEN Null
  ELSE IF pieces[1] # <<>> /\ PairOf(pieces[1]).name = name
       THEN Str(PairOf(pieces[1]).value)
  ELSE FirstParam(Tail(pieces), name)

\* url.searchParams.get(name): the first value of that name, or null
SearchParamsGet(tail, name) == FirstParam(Split(QueryOf(tail), "&"), name)

(***************************************************************************)
(* JSON.stringify and JSON.parse (request.json(), response.json()), for   *)
(* the values the program exchanges: null, strings, integers, booleans,   *)
(* arrays of strings/null, and objects without own enumerable properties  *)
(* (a Set serialises as "{}").                                            *)
(***************************************************************************)
DigitChar(d) ==
  CASE d = 0 -> "0" [] d = 1 -> "1" [] d = 2 -> "2" [] d = 3 -> "3"
    [] d = 4 -> "4" [] d = 5 -> "5" [] d = 6 -> "6" [] d = 7 -> "7"
    [] d = 8 -> "8" [] OTHER -> "9"

IsDigit(c) == c \in {"0", "1", "2", "3", "4", "5", "6", "7", "8", "9"}

RECURSIVE NatText(_)
NatText(n) ==
  IF n < 10 THEN <<DigitChar(n)>>
  ELSE NatText(n \div 10) \o <<DigitChar(n % 10)>>

NumText(n) == IF n < 0 THEN <<"-">> \o NatText(0 - n) ELSE NatText(n)

RECURSIVE EscapeText(_)
EscapeText(s) ==
  IF s = <<>> THEN <<>>
  ELSE IF s[1] = "\"" \/ s[1] = "\\" THEN <<"\\", s[1]>> \o EscapeText(Tail(s))
  ELSE <<s[1]>> \o EscapeText(Tail(s))

QuoteText(s) == <<"\"">> \o EscapeText(s) \o <<"\"">>

NullText == <<"n", "u", "l", "l">>
TrueText == <<"t", "r", "u", "e">>
FalseText == <<"f", "a", "l", "s", "e">>

\* the text of an array element: a string, or null
ElemText(e) == IF e.t = "str" THEN QuoteText(e.s) ELSE NullText

RECURSIVE ElemsText(_)
ElemsText(l) ==
  IF l = <<>> THEN <<>>
  ELSE IF Len(l) = 1 THEN ElemText(l[1])
  ELSE ElemText(l[1]) \o <<",">> \o ElemsText(Tail(l))

\* JSON.stringify(v): undefined for undefined, else the text as a string
JSONstringify(v) ==
  CASE v.t = "undef" -> Undef
    [] v.t = "null" -> Str(NullText)
    [] v.t = "str" -> Str(QuoteText(v.s))
    [] v.t = "num" -> Str(NumText(v.n))
    [] v.t = "bool" -> Str(IF v.b THEN TrueText ELSE FalseText)
    [] v.t = "arr" -> Str(<<"[">> \o ElemsText(v.l) \o <<"]">>)
    [] OTHER -> Str(<<"{", "}">>)

Fail == [ok |-> FALSE]

RECURSIVE ParseStringFrom(_, _, _)
\* t[i..] after an opening quote: the string up to the closing quote
ParseStringFrom(t, i, acc) ==
  IF i > Len(t) THEN Fail
  ELSE IF t[i] = "\"" THEN [ok |-> TRUE, v |-> Str(acc), next |-> i + 1]
  ELSE IF t[i] = "\\"
       THEN IF i + 1 <= Len(t) /\ t[i + 1] \in {"\"", "\\"}
            THEN ParseStringFrom(t, i + 2, Append(acc, t[i + 1]))
            ELSE Fail
  ELSE ParseStringFrom(t, i + 1, Append(acc, t[i]))

RECURSIVE ParseNatFrom(_, _, _)
ParseNatFrom(t, i, acc) ==
  IF i <= Len(t) /\ IsDigit(t[i])
  THEN ParseNatFrom(t, i + 1, 10 * acc + HexVal(t[i]))
  ELSE [ok |-> TRUE, v |-> Num(acc), next |-> i]

HasAt(t, i, lit) == i + Len(lit) - 1 <= Len(t) /\ SubSeq(t, i, i + Len(lit) - 1) = lit

\* a string or null at t[i..]
ParseElemAt(t, i) ==
  IF HasAt(t, i, NullText) THEN [ok |-> TRUE, v |-> Null, next |-> i + 4]
  ELSE IF i <= Len(t) /\ t[i] = "\"" THEN ParseStringFrom(t, i + 1, <<>>)
  ELSE Fail

RECURSIVE ParseElemsFrom(_, _, _)
\* t[i..] inside an array, after "[" or ","
ParseElemsFrom(t, i, acc) ==
  LET e == ParseElemAt(t, i)
  IN IF ~e.ok \/ e.next > Len(t) THEN Fail
     ELSE IF t[e.next] = "]"
          THEN [ok |-> TRUE, v |-> Arr(Append(acc, e.v)), next |-> e.next + 1]
     ELSE IF t[e.next] = "," THEN ParseElemsFrom(t, e.next + 1, Append(acc, e.v))
     ELSE Fail

ParseValueAt(t, i) ==
  IF i > Len(t) THEN Fail
  ELSE IF HasAt(t, i, NullText) THEN [ok |-> TRUE, v |-> Null, next |-> i + 4]
  ELSE IF HasAt(t, i, TrueText) THEN [ok |-> TRUE, v |-> Bool(TRUE), next |-> i + 4]
  ELSE IF HasAt(t, i, FalseText) THEN [ok |-> TRUE, v |-> Bool(FALSE), next |-> i + 5]
  ELSE IF HasAt(t, i, <<"{", "}">>) THEN [ok |-> TRUE, v |-> Obj, next |-> i + 2]
  ELSE IF t[i] = "\"" THEN ParseStringFrom(t, i + 1, <<>>)
  ELSE IF HasAt(t, i, <<"[", "]">>) THEN [ok |-> TRUE, v |-> Arr(<<>>), next |-> i + 2]
  ELSE IF t[i] = "[" THEN ParseElemsFrom(t, i + 1, <<>>)
  ELSE IF IsDigit(t[i]) THEN ParseNatFrom(t, i, 0)
  ELSE IF t[i] = "-" /\ i + 1 <= Len(t) /\ IsDigit(t[i + 1])
       THEN LET r == ParseNatFrom(t, i + 1, 0)
            IN [ok |-> TRUE, v |-> Num(0 - r.v.n), next |-> r.next]
  ELSE Fail

\* JSON.parse(t): [ok |-> TRUE, v |-> value], or [ok |-> FALSE] for a
\* SyntaxError (the empty text included)
JSONparse(t) ==
  LET r == ParseValueAt(t, 1)
  IN IF r.ok /\ r.next = Len(t) + 1 THEN [ok |-> TRUE, v |-> r.v] ELSE Fail

(***************************************************************************)
(* The durable object's transactional storage: a map from keys (strings)  *)
(* to stored values.  A key outside DOMAIN has no entry.                  *)
(***************************************************************************)
EmptyStore == [k \in {} |-> Undef]

\* storage.get(key): the stored value, or undefined
StorageGet(st, k) == IF k \in DOMAIN st THEN st[k] ELSE Undef

\* a faulty put: an entry, once written, keeps its first value
PutKeepsFirst(st, k, v) ==
  [x \in DOMAIN st \cup {k} |-> IF x \in DOMAIN st THEN st[x] ELSE v]

\* a faulty put: a set left without members is dropped
PutUnlessEmpty(st, k, v) ==
  IF v = SetV(<<>>) THEN [x \in DOMAIN st \ {k} |-> st[x]]
  ELSE [x \in DOMAIN st \cup {k} |-> IF x = k THEN v ELSE st[x]]

\* storage.put(key, value)
StoragePut(st, k, v) == [x \in DOMAIN st \cup {k} |-> IF x = k THEN v ELSE st[x]]

\* storage.delete(key)
StorageDelete(st, k) == [x \in DOMAIN st \ {k} |-> st[x]]

\* code unit of a character, for the characters the model's keys can hold
CharCode(c) ==
  CASE c = " " -> 32 [] c = "#" -> 35 [] c = "%" -> 37 [] c = "&" -> 38
    [] c = "+" -> 43 [] c = "," -> 44 [] c = "=" -> 61 [] c = "?" -> 63
    [] c = "a" -> 97 [] c = "b" -> 98 [] c = "c" -> 99 [] c = "k" -> 107
    [] c = "s" -> 115 [] c = "u" -> 117 [] c = "v" -> 118 [] c = "w" -> 119
    [] c = ":" -> 58 [] IsDigit(c) -> 48 + HexVal(c) [] OTHER -> 120

RECURSIVE LexLess(_, _)
LexLess(s, u) ==
  IF u = <<>> THEN FALSE
  ELSE IF s = <<>> THEN TRUE
  ELSE IF s[1] = u[1] THEN LexLess(Tail(s), Tail(u))
  ELSE CharCode(s[1]) < CharCode(u[1])

RECURSIVE SortedSeq(_)
\* the members of a finite set of strings, in lexicographic order
SortedSeq(S) ==
  IF S = {} THEN <<>>
  ELSE LET m == CHOOSE x \in S : \A y \in S \ {x} : LexLess(x, y)
       IN <<m>> \o SortedSeq(S \ {m})

\* a faulty list: the prefix is not passed on
ListEveryKey(st, prefix) == SortedSeq(DOMAIN st)

\* storage.list({prefix}).keys(): the keys with the prefix, sorted
StorageListKeys(st, prefix) ==
  SortedSeq({k \in DOMAIN st : IsPrefix(prefix, k)})

\* a faulty bulk delete: only string entries are removed
DeleteAllStrings(st) == [x \in {k \in DOMAIN st : st[k].t # "str"} |-> st[x]]

\* storage.deleteAll()
StorageDeleteAll(st) == EmptyStore

Range(f) == {f[i] : i \in DOMAIN f}

\* a faulty add: the member is appended even when present
SetAddAgain(m, x) == Append(m, x)

\* a JavaScript Set keeps its members in insertion order: a sequence
\* without repetition
SetAdd(m, x) == IF x \in Range(m) THEN m ELSE Append(m, x)

RECURSIVE SetDelete(_, _)
SetDelete(m, x) ==
  IF m = <<>> THEN <<>>
  ELSE IF m[1] = x THEN Tail(m)
  ELSE <<m[1]>> \o SetDelete(Tail(m), x)

RECURSIVE AddAll(_, _)
\* for (i...) result.add(reqBody[i])
AddAll(m, items) ==
  IF items = <<>> THEN m ELSE AddAll(SetAdd(m, items[1].s), Tail(items))

\* a faulty loop: only the first item is deleted
DeleteFirstOnly(m, items) ==
  IF items = <<>> THEN m ELSE SetDelete(m, items[1].s)

RECURSIVE DeleteAllOf(_, _)
\* for (i...) result.delete(reqBody[i])
DeleteAllOf(m, items) ==
  IF items = <<>> THEN m ELSE DeleteAllOf(SetDelete(m, items[1].s), Tail(items))

(***************************************************************************)
(* The adapter: SplitStorageWrapper builds one request per operation.     *)
(* A call is [op, key, arg]; a request is [path, tail, body], the tail    *)
(* being the URL text after the pathname and the body undefined or a      *)
(* JSON text.                                                             *)
(***************************************************************************)
KeyName == <<"k", "e", "y">>
PrefixName == <<"p", "r", "e", "f", "i", "x">>
KeysName == <<"k", "e", "y", "s">>
ItemName == <<"i", "t", "e", "m">>
ParamName == <<"p", "a", "r", "a", "m">>

Call(op, key, arg) == [op |-> op, key |-> key, arg |-> arg]
Msg(path, tail, body) == [path |-> path, tail |-> tail, body |-> body]

\* `?name=${value}`
Query(name, value) == <<"?">> \o name \o <<"=">> \o value

\* the strings of an array of strings
Texts(l) == [i \in DOMAIN l |-> l[i].s]

WrapperRequest(c) ==
  CASE c.op = "get" -> Msg("/get", Query(KeyName, c.key), Undef)
    [] c.op = "set" -> Msg("/set", Query(KeyName, c.key), JSONstringify(c.arg))
    [] c.op = "getAndSet" ->
         Msg("/getAndSet", Query(KeyName, c.key), JSONstringify(c.arg))
    [] c.op = "del" -> Msg("/del", Query(KeyName, c.key), Undef)
    [] c.op = "getKeysByPrefix" ->
         Msg("/getKeysByPrefix", Query(PrefixName, c.key), Undef)
    [] c.op = "getMany" ->
         Msg("/getMany", Query(KeysName, Join(Texts(c.arg.l), ",")), Undef)
    [] c.op = "incr" -> Msg("/incr", Query(KeyName, c.key), Undef)
    [] c.op = "decr" -> Msg("/decr", Query(KeyName, c.key), Undef)
    [] c.op = "itemContains" ->
         Msg("/itemContains",
             Query(KeyName, c.key) \o <<"&">> \o ItemName \o <<"=">> \o c.arg.s,
             Undef)
    [] c.op = "addItems" ->
         Msg("/addItems", Query(KeyName, c.key), JSONstringify(c.arg))
    [] c.op = "removeItems" ->
         Msg("/removeItems", Query(KeyName, c.key), JSONstringify(c.arg))
    [] c.op = "getItems" -> Msg("/getItems", Query(KeyName, c.key), Undef)

\* The adapter of the engine whose operations take one `param` and a JSON
\* body: increment/decrement with an optional delta that defaults to 1.
DefaultDelta == Num(1)

DeltaRequest(c) ==
  LET d == IF c.arg.t = "undef" THEN DefaultDelta ELSE c.arg
  IN CASE c.op = "incrBy" -> Msg("/incr", Query(ParamName, c.key), JSONstringify(d))
       [] c.op = "decrBy" -> Msg("/decr", Query(ParamName, c.key), JSONstringify(d))

\* durableObjectStub.fetch(url) by a holder of the handle other than the
\* adapter, as the worker's "/delete-all" does: the call names the pathname
StubFetch(c) == Msg(c.key, <<>>, Undef)

DeleteAllPath == "/deleteAll"

RequestOf(c) ==
  IF c.op \in {"incrBy", "decrBy"} THEN DeltaRequest(c)
  ELSE IF c.op = "fetch" THEN StubFetch(c)
  ELSE WrapperRequest(c)

(***************************************************************************)
(* The calls of the scenarios: each scenario is one deployment and one    *)
(* family of calls.                                                       *)
(***************************************************************************)
Scenarios ==
  {"kv", "counter", "set", "delta", "members", "prefix", "many", "reset",
   "paths", "nohandle", "queue", "order", "noawait", "encode", "mix"}

K1 == <<"k">>
K2 == <<"k", "2">>
KvKeys == {K1, K2}
KvValues == {<<>>, <<"a">>, <<"b">>}
CounterKey == <<"c">>
SetKey == <<"s">>
ItemLists == {<<Str(<<"a">>)>>, <<Str(<<"a">>), Str(<<"b">>)>>, <<Str(<<"b">>), Str(<<"c">>)>>}
Deltas == {Undef, Num(0), Num(2)}
K3 == <<"k", "3">>
KeyLists == {<<>>, <<Str(K1)>>, <<Str(K1), Str(K1)>>, <<Str(K1), Str(K2), Str(K3)>>}
P1 == <<"u", ":", "a">>
P2 == <<"u", ":", "b">>
P3 == <<"v">>
Prefixes == {<<>>, <<"u", ":">>, <<"u", ":", "b">>, <<"w">>}
UnknownPaths == {"/", "/unknown", "/delete-all"}
QueueKey == <<"q">>
PlainKey == <<"a">>
ReservedKeys ==
  {<<"a", "#", "b">>, <<"a", "&", "b">>, <<"a", "+", "b">>, <<"a", "=", "b">>,
   <<"a", "%", "2", "C", "b">>}
CommaKey == <<"a", ",", "b">>
QueuePaths == {"/pushItems", "/popItems", "/getItemsCount"}

Menu(s) ==
  CASE s = "kv" ->
         {Call("get", k, Undef) : k \in KvKeys}
         \cup {Call("set", k, Str(v)) : k \in KvKeys, v \in KvValues}
         \cup {Call("getAndSet", k, Str(v)) : k \in KvKeys, v \in KvValues}
         \cup {Call("del", k, Undef) : k \in KvKeys}
         \cup {Call("getMany", <<>>, Arr(<<Str(K1), Str(K2)>>))}
    [] s = "counter" ->
         {Call("incr", CounterKey, Undef), Call("decr", CounterKey, Undef)}
    [] s = "set" ->
         {Call("addItems", SetKey, Arr(l)) : l \in ItemLists}
         \cup {Call("removeItems", SetKey, Arr(l)) : l \in ItemLists}
    [] s = "delta" ->
         {Call("incrBy", CounterKey, d) : d \in Deltas}
         \cup {Call("decrBy", CounterKey, d) : d \in Deltas}
         \cup {Call("fetch", "/unknown", Undef)}
    [] s = "members" ->
         {Call("addItems", SetKey, Arr(l)) : l \in ItemLists}
         \cup {Call("removeItems", SetKey, Arr(l)) : l \in ItemLists}
         \cup {Call("getItems", SetKey, Undef)}
         \cup {Call("itemContains", SetKey, Str(x)) : x \in {<<"a">>, <<"c">>}}
         \cup {Call("getKeysByPrefix", <<>>, Undef)}
    [] s = "prefix" ->
         {Call("set", P1, Str(<<"a">>)), Call("set", P3, Str(<<>>)),
          Call("addItems", P2, Arr(<<Str(<<"a">>)>>)), Call("del", P1, Undef)}
         \cup {Call("getKeysByPrefix", p, Undef) : p \in Prefixes}
    [] s = "many" ->
         {Call("set", K1, Str(<<"a">>)), Call("set", K3, Str(<<"b">>))}
         \cup {Call("getMany", <<>>, Arr(l)) : l \in KeyLists}
    [] s = "reset" ->
         {Call("fetch", DeleteAllPath, Undef), Call("get", K1, Undef),
          Call("getMany", <<>>, Arr(<<Str(K1), Str(K2)>>)),
          Call("getKeysByPrefix", <<>>, Undef), Call("getItems", SetKey, Undef),
          Call("set", K1, Str(<<"b">>))}
    [] s = "paths" ->
         {Call("fetch", p, Undef) : p \in UnknownPaths}
         \cup {Call("set", K1, Str(<<"a">>)), Call("del", K1, Undef),
               Call("connect", <<>>, Undef), Call("disconnect", <<>>, Undef)}
    [] s = "nohandle" ->
         {Call("connect", <<>>, Undef), Call("disconnect", <<>>, Undef),
          Call("get", K1, Undef), Call("set", K1, Str(<<"a">>))}
    [] s = "order" ->
         {Call("set", K1, Str(<<"a">>)), Call("set", K1, Str(<<"b">>)),
          Call("get", K1, Undef), Call("getAndSet", K1, Str(<<"b">>)),
          Call("del", K1, Undef), Call("incr", CounterKey, Undef),
          Call("addItems", SetKey, Arr(<<Str(<<"a">>)>>)),
          Call("getItems", SetKey, Undef)}
    [] s = "noawait" ->
         {Call("set", K1, Str(<<"a">>)), Call("set", K1, Str(<<"b">>)),
          Call("get", K1, Undef), Call("del", K1, Undef),
          Call("addItems", SetKey, Arr(<<Str(<<"a">>)>>)),
          Call("removeItems", SetKey, Arr(<<Str(<<"a">>)>>)),
          Call("getItems", SetKey, Undef)}
    [] s = "encode" ->
         {Call("set", k, Str(<<"b">>)) : k \in ReservedKeys \cup {PlainKey}}
         \cup {Call("get", PlainKey, Undef), Call("get", <<"a", "#", "b">>, Undef),
               Call("getMany", <<>>, Arr(<<Str(CommaKey)>>)),
               Call("getMany", <<>>, Arr(<<Str(PlainKey), Str(<<"a", "=", "b">>)>>))}
    [] s = "mix" ->
         {Call("getAndSet", K1, Str(<<"a">>)), Call("set", K1, Str(<<"b">>)),
          Call("get", K1, Undef), Call("incr", CounterKey, Undef),
          Call("addItems", SetKey, Arr(<<Str(<<"a">>)>>)),
          Call("getItems", SetKey, Undef),
          Call("fetch", DeleteAllPath, Undef), Call("connect", <<>>, Undef)}
    [] s = "queue" ->
         {Call("pushItems", QueueKey, Arr(<<Str(<<"a">>)>>)),
          Call("popItems", QueueKey, Num(1)),
          Call("getItemsCount", QueueKey, Undef),
          Call("set", QueueKey, Str(<<"a">>))}
         \cup {Call("fetch", p, Undef) : p \in QueuePaths}

(***************************************************************************)
(* Responses.                                                             *)
(***************************************************************************)
NoResp == [kind |-> "none", status |-> 0, body |-> <<>>]
Exception == [kind |-> "exception", status |-> 0, body |-> <<>>]
NotFoundText == <<"N", "o", "t", " ", "f", "o", "u", "n", "d">>
NotFound == [kind |-> "response", status |-> 404, body |-> NotFoundText]

\* new Response(result !== undefined ? JSON.stringify(result) : undefined)
Response(result) ==
  [kind |-> "response", status |-> 200,
   body |-> IF result.t = "undef" THEN <<>> ELSE JSONstringify(result).s]

Resolved(v) == [kind |-> "resolved", v |-> v]
Rejected == [kind |-> "rejected", v |-> Undef]

\* response.json()
ResponseJson(resp) ==
  LET r == JSONparse(resp.body) IN IF r.ok THEN Resolved(r.v) ELSE Rejected

\* response.ok
ResponseOk(resp) == resp.status >= 200 /\ resp.status <= 299

\* what the adapter's promise settles to, given the engine's answer
WrapperResult(c, resp) ==
  IF resp.kind = "exception" THEN Rejected
  ELSE IF c.op \in {"set", "del"} THEN Resolved(Bool(ResponseOk(resp)))
  ELSE IF c.op \in {"addItems", "removeItems"} THEN Resolved(Undef)
  ELSE ResponseJson(resp)

\* what a holder of the handle gets from durableObjectStub.fetch(url): the
\* response as it is (its status), or a rejection if the handler threw
FetchResult(resp) ==
  IF resp.kind = "exception" THEN Rejected ELSE Resolved(Num(resp.status))

\* the adapter's operations that send nothing
LocalOps == {"connect", "disconnect", "pushItems", "popItems", "getItemsCount"}

\* a faulty adapter: pushItems is counted
QueueCounts(handle, c) ==
  CASE c.op = "connect" -> IF ~handle THEN Rejected ELSE Resolved(Undef)
    [] c.op = "popItems" -> Resolved(Arr(<<>>))
    [] c.op = "getItemsCount" -> Resolved(Num(1))
    [] c.op \in {"disconnect", "pushItems"} -> Resolved(Undef)
    [] OTHER -> Rejected

\* a faulty connect: a missing handle goes unnoticed
ConnectNeverFails(handle) == Resolved(Undef)

\* if (!durableObject) throw new Error(...)
Connect(handle) == IF ~handle THEN Rejected ELSE Resolved(Undef)

\* what the promise of an operation that sends nothing settles to; an
\* operation that would send, on an adapter built without a handle, throws
\* at `durableObject.fetch`
LocalResult(handle, c) ==
  CASE c.op = "connect" -> Connect(handle)
    [] c.op = "disconnect" -> Resolved(Undef)
    [] c.op = "pushItems" -> Resolved(Undef)
    [] c.op = "popItems" -> Resolved(Arr(<<>>))
    [] c.op = "getItemsCount" -> Resolved(Num(0))
    [] OTHER -> Rejected

(***************************************************************************)
(* The engine: SplitStorage.fetch.  A handler runs from one await to the  *)
(* next in one step.  An effect is what such a run leaves behind: the     *)
(* store, where the handler now waits (pc), the storage read it issued    *)
(* (tmp, the value as of the call), whether that read holds the input     *)
(* gate, and the response if the handler returned.                        *)
(*   pc = "body"   awaiting request.json()                                *)
(*   pc = "read"   awaiting a storage read                                *)
(*   pc = "write"  awaiting storage.deleteAll()                           *)
(***************************************************************************)
Eff(st, pc, tmp, hold, resp) ==
  [store |-> st, pc |-> pc, tmp |-> tmp, hold |-> hold, resp |-> resp]

\* a faulty runtime/handler: no read closes the input gate
InputGateNeverCloses(allowConcurrency) == FALSE

\* While a storage read is in progress the runtime delivers no other event
\* to the object, unless the read was issued with allowConcurrency: true.
InputGateCloses(allowConcurrency) == ~allowConcurrency

AwaitBody(st, tmp, hold) == Eff(st, "body", tmp, hold, NoResp)
AwaitRead(st, value, allowConcurrency) ==
  Eff(st, "read", value, InputGateCloses(allowConcurrency), NoResp)
Return(st, tmp, result) == Eff(st, "", tmp, FALSE, Response(result))
Throw(st, tmp) == Eff(st, "", tmp, FALSE, Exception)

\* every call of the scenarios, and the request each one sends, if any
Calls == UNION {Menu(s) : s \in Scenarios}
Sends == [c \in {x \in Calls : x.op \notin LocalOps} |-> RequestOf(c)]
Requests == {Sends[c] : c \in DOMAIN Sends}

\* new URL(request.url).searchParams of each request, by parameter name
SearchParams ==
  [msg \in Requests |->
     [name \in {KeyName, PrefixName, KeysName, ItemName, ParamName} |->
        SearchParamsGet(msg.tail, name)]]

\* the body of each request as request.json() parses it
ParsedBody ==
  [msg \in Requests |->
     IF msg.body.t = "undef" THEN Fail ELSE JSONparse(msg.body.s)]

\* the two engines of the repository: operations addressed by `key` (and
\* `prefix`, `keys`, `item`), or by one `param` with the rest in the body
ParamOf(variant, msg, name) ==
  SearchParams[msg][IF variant = "param" THEN ParamName ELSE name]

\* await request.json()
RequestJson(msg) == ParsedBody[msg]

\* keys.map(key => map.get(key) || null) over the map read by storage.get(keys)
ManyValues(st, keys) == [i \in DOMAIN keys |-> StorageGet(st, keys[i])]
ManyResult(values) == [i \in DOMAIN values |-> OrElse(values[i], Null)]

\* a faulty increment: an absent key starts from 0
IncrFromZero(tmp, d) == IF Truthy(tmp) THEN Num(tmp.n + d) ELSE Num(0)

\* a faulty increment: the delta is ignored
IncrIgnoresDelta(tmp, d) == IF Truthy(tmp) THEN Num(tmp.n + 1) ELSE Num(1)

\* result ? result + d : d
IncrResult(tmp, d) == IF Truthy(tmp) THEN Num(tmp.n + d) ELSE Num(d)

\* a faulty decrement: an absent key becomes d, as in the increment
DecrLikeIncr(tmp, d) == IF Truthy(tmp) THEN Num(tmp.n - d) ELSE Num(d)

\* result ? result - d : -d
DecrResult(tmp, d) == IF Truthy(tmp) THEN Num(tmp.n - d) ELSE Num(0 - d)

\* result && result.has(item) ? true : false
ContainsResult(tmp, item) == Bool(Truthy(tmp) /\ item \in Range(tmp.m))

\* a faulty getItems: no empty set stands in for an absent key
ItemsOfEntry(tmp) ==
  IF Truthy(tmp) THEN Arr([i \in DOMAIN tmp.m |-> Str(tmp.m[i])]) ELSE Undef

\* a faulty switch without the default case: the handler falls through to
\* the final response
DefaultFallsThrough(st) == Return(st, Undef, Undef)

\* default: return new Response("Not found", { status: 404 })
DefaultCase(st) == Eff(st, "", Undef, FALSE, NotFound)

\* Array.from(result || new Set())
ItemsResult(tmp) == Arr([i \in DOMAIN OrElse(tmp, SetV(<<>>)).m |-> Str(tmp.m[i])])

\* The handler from its start to its first await.
HandlerStart(variant, st, msg) ==
  LET key == ParamOf(variant, msg, KeyName)
      k == IF key.t = "str" THEN key.s ELSE <<>>
  IN CASE msg.path = "/get" -> AwaitRead(st, StorageGet(st, k), TRUE)
       [] msg.path = "/set" -> AwaitBody(st, Undef, FALSE)
       [] msg.path = "/getAndSet" ->
            AwaitBody(st, StorageGet(st, k), InputGateCloses(FALSE))
       [] msg.path = "/del" -> Return(StorageDelete(st, k), Undef, Undef)
       [] msg.path = "/getKeysByPrefix" ->
            LET prefix == ParamOf(variant, msg, PrefixName)
            IN AwaitRead(st, Arr(StorageListKeys(st, prefix.s)), TRUE)
       [] msg.path = "/getMany" ->
            LET keys == Split(ParamOf(variant, msg, KeysName).s, ",")
            IN AwaitRead(st, Arr(ManyValues(st, keys)), TRUE)
       [] msg.path \in {"/incr", "/decr"} ->
            IF variant = "param" THEN AwaitBody(st, Undef, FALSE)
            ELSE AwaitRead(st, StorageGet(st, k), FALSE)
       [] msg.path = "/itemContains" ->
            IF variant = "param" THEN AwaitBody(st, Undef, FALSE)
            ELSE AwaitRead(st, StorageGet(st, k), TRUE)
       [] msg.path \in {"/addItems", "/removeItems"} -> AwaitBody(st, Undef, FALSE)
       [] msg.path = "/getItems" -> AwaitRead(st, StorageGet(st, k), TRUE)
       [] msg.path = "/pushItems" -> Return(st, Undef, Undef)
       [] msg.path = "/popItems" -> Return(st, Undef, Arr(<<>>))
       [] msg.path = "/getItemsCount" -> Return(st, Undef, Num(0))
       [] msg.path = DeleteAllPath ->
            Eff(StorageDeleteAll(st), "write", Undef, FALSE, NoResp)
       [] OTHER -> DefaultCase(st)

\* a faulty runtime: the gate stays closed when the read has completed
ReadKeepsGate(st, tmp) == AwaitBody(st, tmp, TRUE)

\* case "/getAndSet": the read has completed, the gate opens and the handler
\* goes on to await the body
ReadCompletes(st, tmp) == AwaitBody(st, tmp, FALSE)

\* case "/deleteAll": the awaited deleteAll has completed
WriteCompletes(st, tmp) == Return(st, tmp, Undef)

\* a faulty /getItems: the set made for an absent key is stored
GetItemsCreates(st, k, tmp) ==
  Return(StoragePut(st, k, OrElse(tmp, SetV(<<>>))), tmp, ItemsResult(tmp))

\* case "/getItems", once the read has completed
GetItemsCase(st, k, tmp) == Return(st, tmp, ItemsResult(tmp))

\* The handler resumed by the arrival of the request body.
HandlerBody(variant, st, msg, tmp) ==
  LET key == ParamOf(variant, msg, KeyName)
      k == IF key.t = "str" THEN key.s ELSE <<>>
      reqBody == RequestJson(msg)
  IN IF ~reqBody.ok THEN Throw(st, tmp)
     ELSE CASE msg.path = "/set" -> Return(StoragePut(st, k, reqBody.v), tmp, Undef)
            [] msg.path = "/getAndSet" ->
                 Return(StoragePut(st, k, reqBody.v), tmp, OrElse(tmp, Null))
            [] msg.path = "/itemContains" -> AwaitRead(st, StorageGet(st, k), TRUE)
            [] OTHER -> AwaitRead(st, StorageGet(st, k), FALSE)

\* The handler resumed by the completion of the storage operation it awaits.
HandlerStorage(variant, st, msg, pc, tmp) ==
  LET key == ParamOf(variant, msg, KeyName)
      k == IF key.t = "str" THEN key.s ELSE <<>>
      reqBody == RequestJson(msg)
      d == IF variant = "param" THEN reqBody.v.n ELSE 1
  IN CASE pc = "body" -> ReadCompletes(st, tmp)
       [] pc = "write" -> WriteCompletes(st, tmp)
       [] msg.path = "/get" -> Return(st, tmp, OrElse(tmp, Null))
       [] msg.path = "/getKeysByPrefix" ->
            Return(st, tmp, Arr([i \in DOMAIN tmp.l |-> Str(tmp.l[i])]))
       [] msg.path = "/getMany" -> Return(st, tmp, Arr(ManyResult(tmp.l)))
       [] msg.path = "/incr" ->
            Return(StoragePut(st, k, IncrResult(tmp, d)), tmp, IncrResult(tmp, d))
       [] msg.path = "/decr" ->
            Return(StoragePut(st, k, DecrResult(tmp, d)), tmp, DecrResult(tmp, d))
       [] msg.path = "/itemContains" ->
            Return(st, tmp,
                   ContainsResult(tmp, IF variant = "param" THEN reqBody.v.s
                                       ELSE ParamOf(variant, msg, ItemName).s))
       [] msg.path = "/addItems" ->
            LET result == SetV(AddAll(OrElse(tmp, SetV(<<>>)).m, reqBody.v.l))
            IN Return(StoragePut(st, k, result), tmp, result)
       [] msg.path = "/removeItems" ->
            IF Truthy(tmp)
            THEN LET result == SetV(DeleteAllOf(tmp.m, reqBody.v.l))
                 IN Return(StoragePut(st, k, result), tmp, result)
            ELSE Return(st, tmp, tmp)
       [] OTHER -> GetItemsCase(st, k, tmp)

(***************************************************************************)
(* The system: one engine instance, and callers that drive it through the *)
(* adapter.  Each scenario is one deployment and one family of calls.     *)
(***************************************************************************)
MaxKvReq == 2
MaxCounterReq == 3
MaxSetReq == 3
MaxDeltaReq == 2
MaxSeqReq == 3
MaxAdminReq == 2
MaxMixReq == 2

MaxReq(s) ==
  CASE s = "kv" -> MaxKvReq
    [] s = "counter" -> MaxCounterReq
    [] s = "set" -> MaxSetReq
    [] s = "delta" -> MaxDeltaReq
    [] s \in {"members", "prefix", "many", "order", "encode"} -> MaxSeqReq
    [] s = "mix" -> MaxMixReq
    [] OTHER -> MaxAdminReq

\* which engine the scenario deploys
VariantOf(s) == IF s = "delta" THEN "param" ELSE "key"

\* one caller, who awaits each operation before issuing the next
Sequential(s) == s \in {"members", "prefix", "many", "order", "encode"}

\* one caller, who does not await the acknowledgment of set, addItems and
\* removeItems before issuing the next operation through the same stub
NoAwait(s) == s = "noawait"
Unawaited == {"set", "addItems", "removeItems"}

\* whether the adapter was built with a handle (durableObject)
HandleOf(s) == s # "nohandle"

\* The storage outlives the object: the instance of the reset scenario is
\* constructed over entries written earlier.
Loaded ==
  [k \in {K1, K2, SetKey} |->
     IF k = K1 THEN Str(<<"a">>) ELSE IF k = K2 THEN Str(<<"b">>)
     ELSE SetV(<< <<"a">> >>)]

InitStore(s) == IF s = "reset" THEN Loaded ELSE EmptyStore

VARIABLES
  scn,    \* the scenario
  store,  \* the instance's storage
  gate,   \* the request whose storage read holds the input gate, or 0
  req     \* the requests: call, handler position, response, caller order

vars == <<scn, store, gate, req>>

NoCall == Call("none", <<>>, Undef)
Idle ==
  [st |-> "idle", call |-> NoCall, pc |-> "", tmp |-> Undef, resp |-> NoResp,
   prev |-> 0]

Reqs == DOMAIN req

Init ==
  /\ scn \in Scenarios
  /\ store = InitStore(scn)
  /\ gate = 0
  /\ req = [r \in 1..MaxReq(scn) |-> Idle]

\* A caller awaits an operation before it issues its next one: the new
\* request follows a finished request that no request follows yet, or
\* starts a new caller (0).
PrevChoices(r) ==
  IF Sequential(scn) \/ NoAwait(scn) THEN {r - 1}
  ELSE {0} \cup {q \in Reqs : /\ req[q].st \in {"done", "local"}
                              /\ \A x \in Reqs : req[x].prev # q}

\* the state of request r after a handler run with effect e
Settle(r, c, p, e) ==
  /\ store' = e.store
  /\ gate' = IF e.hold THEN r ELSE IF gate = r THEN 0 ELSE gate
  /\ req' = [req EXCEPT ![r] =
               [st |-> IF e.resp.kind = "none" THEN "run" ELSE "done",
                call |-> c, pc |-> e.pc, tmp |-> e.tmp, resp |-> e.resp,
                prev |-> p]]
  /\ UNCHANGED scn

\* A caller issues call c; the request is delivered to the instance (the
\* input gate is open) and the handler runs to its first await.  A request
\* that waits at a closed gate is one that is delivered later: the order of
\* delivery of concurrent requests is free.
Deliver(r) ==
  /\ req[r].st = "idle"
  /\ \A q \in Reqs : q < r => req[q].st # "idle"
  /\ Sequential(scn) => \A q \in Reqs : q < r => req[q].st = "done"
  /\ NoAwait(scn) =>
       \A q \in Reqs : q < r => req[q].st = "done" \/ req[q].call.op \in Unawaited
  /\ gate = 0
  /\ HandleOf(scn)
  /\ \E c \in Menu(scn), p \in PrevChoices(r) :
       /\ c.op \notin LocalOps
       /\ Settle(r, c, p, HandlerStart(VariantOf(scn), store, Sends[c]))

\* A caller invokes an operation that the adapter settles by itself:
\* connect, disconnect, the queue stubs, and any operation of an adapter
\* built without a handle.  Nothing is sent.
Local(r) ==
  /\ req[r].st = "idle"
  /\ \A q \in Reqs : q < r => req[q].st # "idle"
  /\ \E c \in Menu(scn), p \in PrevChoices(r) :
       /\ c.op \in LocalOps \/ ~HandleOf(scn)
       /\ req' = [req EXCEPT ![r] = [Idle EXCEPT !.st = "local", !.call = c,
                                                 !.prev = p]]
  /\ UNCHANGED <<scn, store, gate>>

\* The request body has arrived: an event, delivered when the gate is open.
BodyArrives(r) ==
  /\ req[r].st = "run"
  /\ req[r].pc = "body"
  /\ gate = 0
  /\ Settle(r, req[r].call, req[r].prev,
            HandlerBody(VariantOf(scn), store, Sends[req[r].call], req[r].tmp))

\* A storage operation of r completes: delivered whatever the gate.
StorageDone(r) ==
  /\ req[r].st = "run"
  /\ \/ req[r].pc \in {"read", "write"}
     \/ req[r].pc = "body" /\ gate = r
  /\ Settle(r, req[r].call, req[r].prev,
            HandlerStorage(VariantOf(scn), store, Sends[req[r].call],
                           req[r].pc, req[r].tmp))

Next ==
  \/ \E r \in Reqs : Deliver(r)
  \/ \E r \in Reqs : BodyArrives(r)
  \/ \E r \in Reqs : StorageDone(r)
  \/ \E r \in Reqs : Local(r)

Spec == Init /\ [][Next]_vars

\* The runtime delivers every event of the instance in the end: a storage
\* completion whatever the gate, the arrival of a body once the gate is open.
FairInit == Init /\ scn = "mix"
Fairness ==
  \A r \in 1..MaxMixReq : WF_vars(BodyArrives(r)) /\ WF_vars(StorageDone(r))
FairSpec == FairInit /\ [][Next]_vars /\ Fairness

(***************************************************************************)
(* Vocabulary of the properties.                                          *)
(***************************************************************************)
Done(r) == req[r].st = "done"
Op(r) == req[r].call.op
DoneOf(op) == {r \in Reqs : Done(r) /\ Op(r) = op}

\* what the caller of request r gets, given the engine's answer
ResultOf(r, c, resp) ==
  IF c.op = "fetch" THEN FetchResult(resp) ELSE WrapperResult(c, resp)

\* what the caller of r got
Result(r) ==
  IF req[r].st = "local" THEN LocalResult(HandleOf(scn), req[r].call)
  ELSE ResultOf(r, req[r].call, req[r].resp)

\* r is answered in this step: its handler returns the response
Answered(r) == req[r].st \in {"idle", "run"} /\ req'[r].st = "done"

\* no request was issued after r
Latest(r) == \A x \in Reqs : x > r => req[x].st = "idle"

\* r finishes in this step (its handler returns)
Finishes(r) == req[r].st = "run" /\ req'[r].st = "done"

\* the integer at a key, an absent key counting as 0
IntAt(st, k) == IF k \in DOMAIN st THEN st[k].n ELSE 0

\* the members of the set at a key, an absent key having none
MembersAt(st, k) == IF k \in DOMAIN st THEN Range(st[k].m) ELSE {}

ItemsOf(r) == {req[r].call.arg.l[i].s : i \in DOMAIN req[r].call.arg.l}

\* the position of r in its caller's sequence of calls
RECURSIVE Position(_)
Position(r) == IF req[r].prev = 0 THEN 1 ELSE 1 + Position(req[r].prev)

(***************************************************************************)
(* C1: N concurrent incr(k) from k absent leave exactly N at k; no        *)
(* increment (or decrement) is lost: whenever only incr and decr touch k, *)
(* the value at k is the number of finished incr minus the number of      *)
(* finished decr, in every interleaving.                                  *)
(***************************************************************************)
C1_NoLostIncrement ==
  scn = "counter" =>
    /\ (CounterKey \in DOMAIN store) = (DoneOf("incr") \cup DoneOf("decr") # {})
    /\ IntAt(store, CounterKey) =
         Cardinality(DoneOf("incr")) - Cardinality(DoneOf("decr"))
    /\ (\A r \in Reqs : Done(r) /\ Op(r) = "incr")
         => store[CounterKey] = Num(Cardinality(Reqs))

\* all requests are incr of distinct callers, all finished, and k holds N
C1_Witness ==
  /\ scn = "counter"
  /\ \A r \in Reqs : Done(r) /\ Op(r) = "incr" /\ req[r].prev = 0
  /\ store[CounterKey] = Num(MaxCounterReq)

(***************************************************************************)
(* C2: getAndSet(k, v) is atomic: the value it returns is the value k     *)
(* held immediately before its own write (absent, or a stored empty       *)
(* string, being answered null), so nothing is handled between its read   *)
(* and its write.                                                         *)
(***************************************************************************)
C2_GetAndSetAtomic ==
  [][\A r \in Reqs :
       (Finishes(r) /\ Op(r) = "getAndSet")
         => WrapperResult(req'[r].call, req'[r].resp)
              = Resolved(OrElse(StorageGet(store, req[r].call.key), Null))]_vars

(***************************************************************************)
(* C3: addItems and removeItems are atomic read-then-write operations: in *)
(* every interleaving the set at k holds every member added by a finished *)
(* addItems that no finished removeItems names, and only members that     *)
(* some finished addItems added.                                          *)
(***************************************************************************)
C3_SetUpdatesAtomic ==
  scn = "set" =>
    LET added == UNION {ItemsOf(r) : r \in DoneOf("addItems")}
        removed == UNION {ItemsOf(r) : r \in DoneOf("removeItems")}
    IN /\ added \ removed \subseteq MembersAt(store, SetKey)
       /\ MembersAt(store, SetKey) \subseteq added

\* two addItems of different callers with different items and a
\* removeItems of a third caller have all finished, and members remain
C3_Witness ==
  /\ scn = "set"
  /\ \A r \in Reqs : Done(r) /\ req[r].prev = 0
  /\ \E a, b, c \in Reqs :
       /\ Op(a) = "addItems" /\ Op(b) = "addItems" /\ Op(c) = "removeItems"
       /\ ItemsOf(a) \ ItemsOf(b) # {} /\ ItemsOf(b) \ ItemsOf(a) # {}
       /\ (ItemsOf(a) \cup ItemsOf(b)) \ ItemsOf(c) # {}
       /\ ItemsOf(c) \cap (ItemsOf(a) \cup ItemsOf(b)) # {}
  /\ MembersAt(store, SetKey) # {}

(***************************************************************************)
(* The sequential reading of the engine: one request handled alone, from  *)
(* its start to its response, with nothing in between.                    *)
(***************************************************************************)
RunAlone(variant, st, msg) ==
  LET e1 == HandlerStart(variant, st, msg)
      e2 == IF e1.pc = "body" THEN HandlerBody(variant, e1.store, msg, e1.tmp) ELSE e1
  IN IF e2.pc \in {"read", "write"}
     THEN HandlerStorage(variant, e2.store, msg, e2.pc, e2.tmp)
     ELSE e2

\* the orders in which the requests of S can be lined up
Orders(S) ==
  {f \in [1..Cardinality(S) -> S] : \A i, j \in DOMAIN f : f[i] = f[j] => i = j}

\* each caller's calls appear in the order the caller issued them
KeepsCallerOrder(f) ==
  \A i, j \in DOMAIN f : req[f[j]].prev = f[i] => i < j

RECURSIVE Replays(_, _, _)
\* handling f[i], f[i+1], ... alone and in that order from store st gives
\* each request the response it got and ends in the present store
Replays(f, i, st) ==
  IF i > Len(f) THEN st = store
  ELSE LET e == RunAlone(VariantOf(scn), st, RequestOf(req[f[i]].call))
       IN e.resp = req[f[i]].resp /\ Replays(f, i + 1, e.store)

Quiescent == \A r \in Reqs : req[r].st # "run"

(***************************************************************************)
(* C4: every execution of concurrent requests is equivalent (same         *)
(* response to every request, same final store) to a sequential execution *)
(* in which each operation is one atomic step and each caller's calls     *)
(* keep their order.                                                      *)
(***************************************************************************)
C4_Linearizable ==
  Quiescent =>
    \E f \in Orders({r \in Reqs : Done(r)}) :
      KeepsCallerOrder(f) /\ Replays(f, 1, InitStore(scn))

\* the same, for the executions in which no getAndSet takes part
LinearizableWithoutGetAndSet ==
  (\A r \in Reqs : Op(r) # "getAndSet") => C4_Linearizable

\* the requests other than s and g leave key k alone
OthersLeave(k, s, g) ==
  \A x \in Reqs \ {s, g} :
    req[x].st = "idle" \/ Op(x) \in {"get", "getMany"} \/ req[x].call.key # k

(***************************************************************************)
(* C5: for every key k and every string v, the empty string included,     *)
(* set(k, v) followed by get(k), with no write to k in between, returns v.*)
(***************************************************************************)
C5_SetThenGet ==
  \A s, g \in Reqs :
    (/\ Done(s) /\ Op(s) = "set"
     /\ Done(g) /\ Op(g) = "get" /\ req[g].prev = s
     /\ req[g].call.key = req[s].call.key
     /\ OthersLeave(req[s].call.key, s, g))
      => Result(g) = Resolved(req[s].call.arg)

(***************************************************************************)
(* C6: get(k) returns null if and only if k holds no entry (a stored      *)
(* empty string is returned as such, never as null), and the same holds   *)
(* position by position for getMany.                                      *)
(***************************************************************************)
C6_NullIffNoEntry ==
  \A r \in Reqs :
    /\ (Done(r) /\ Op(r) = "get")
         => ((Result(r) = Resolved(Null)) <=> (req[r].tmp.t = "undef"))
    /\ (Done(r) /\ Op(r) = "getMany")
         => /\ Result(r).kind = "resolved"
            /\ \A i \in DOMAIN req[r].tmp.l :
                 (Result(r).v.l[i] = Null) <=> (req[r].tmp.l[i].t = "undef")

(***************************************************************************)
(* C7: for sequential calls, getAndSet(k, v2) returns the value stored at *)
(* k before it (v1 after set(k, v1), null if k was never written) and     *)
(* leaves v2 at k and every other key as it was.                          *)
(***************************************************************************)
C7_GetAndSetSequential ==
  \A g \in Reqs :
    (Done(g) /\ Op(g) = "getAndSet")
      => /\ \A s \in Reqs :
              (/\ Done(s) /\ Op(s) = "set" /\ req[g].prev = s
               /\ req[g].call.key = req[s].call.key
               /\ \A x \in Reqs \ {s, g} : req[x].st = "idle")
                => /\ Result(g) = Resolved(req[s].call.arg)
                   /\ store = (req[g].call.key :> req[g].call.arg)
         /\ (\A x \in Reqs \ {g} : req[x].st = "idle")
              => /\ Result(g) = Resolved(Null)
                 /\ store = (req[g].call.key :> req[g].call.arg)

(***************************************************************************)
(* C8: incr(k) on an absent key returns 1 and stores 1; on a key holding  *)
(* n it returns n+1 and stores n+1; the value returned is the value       *)
(* stored; the i-th of a caller's sequential incr(k) from the unset state *)
(* returns i.                                                             *)
(***************************************************************************)
C8_IncrStep ==
  [][\A r \in Reqs :
       (Finishes(r) /\ Op(r) = "incr")
         => LET n == IntAt(store, req[r].call.key)
                got == WrapperResult(req'[r].call, req'[r].resp)
            IN /\ got = Resolved(Num(n + 1))
               /\ StorageGet(store', req[r].call.key) = got.v
               /\ (\A x \in Reqs \ {r} :
                     req[x].st # "idle" => Done(x) /\ Op(x) = "incr")
                    => got.v.n = Cardinality(DoneOf("incr")) + 1]_vars

\* one caller's three incr in a row returned 1, 2, 3
C8_Witness ==
  /\ scn = "counter"
  /\ \A r \in Reqs : Done(r) /\ Op(r) = "incr" /\ Result(r) = Resolved(Num(Position(r)))
  /\ \E r \in Reqs : Position(r) = 3

(***************************************************************************)
(* C9: decr(k) on an absent key returns -1 and on a key holding n returns *)
(* n-1, also when n is 0 or the result crosses zero; three sequential     *)
(* decr(k) from the unset state return -1, -2, -3.                        *)
(***************************************************************************)
C9_DecrStep ==
  [][\A r \in Reqs :
       (Finishes(r) /\ Op(r) = "decr")
         => LET n == IntAt(store, req[r].call.key)
                got == WrapperResult(req'[r].call, req'[r].resp)
            IN /\ got = Resolved(Num(n - 1))
               /\ StorageGet(store', req[r].call.key) = got.v
               /\ (\A x \in Reqs \ {r} :
                     req[x].st # "idle" => Done(x) /\ Op(x) = "decr")
                    => got.v.n = 0 - (Cardinality(DoneOf("decr")) + 1)]_vars

\* one caller's three decr in a row returned -1, -2, -3
C9_Witness ==
  /\ scn = "counter"
  /\ \A r \in Reqs :
       Done(r) /\ Op(r) = "decr" /\ Result(r) = Resolved(Num(0 - Position(r)))
  /\ \E r \in Reqs : Position(r) = 3

\* the delta of a call: the one given, or 1
DeltaOf(c) == IF c.arg.t = "undef" THEN 1 ELSE c.arg.n

Got(r) == ResultOf(r, req'[r].call, req'[r].resp)

\* the strings of a list result
Listed(got) == {got.v.l[i] : i \in DOMAIN got.v.l}

(***************************************************************************)
(* C11: addItems is an idempotent union.  Each addItems(k, A) leaves at k *)
(* a set (created if k was absent) holding exactly the former members and *)
(* those of A, each once, and changes nothing when every member of A is   *)
(* already there; after addItems(k, A1) ... addItems(k, An) on an absent  *)
(* key, getItems(k) returns exactly the members of the union of the Ai,   *)
(* each once, and itemContains(k, x) is true exactly for x in the union.  *)
(***************************************************************************)
C11_AddItemsUnion ==
  [][\A r \in Reqs :
       LET k == req[r].call.key
           union == UNION {ItemsOf(x) : x \in 1..(r - 1)}
       IN /\ (Finishes(r) /\ Op(r) = "addItems")
               => /\ k \in DOMAIN store'
                  /\ MembersAt(store', k) = MembersAt(store, k) \cup ItemsOf(r)
                  /\ Len(store'[k].m) = Cardinality(Range(store'[k].m))
                  /\ (k \in DOMAIN store /\ ItemsOf(r) \subseteq MembersAt(store, k))
                       => store' = store
                  /\ Got(r) = Resolved(Undef)
          /\ (/\ Finishes(r) /\ Sequential(scn)
              /\ \A x \in 1..(r - 1) : Op(x) = "addItems" /\ req[x].call.key = k)
               => /\ Op(r) = "getItems"
                       => /\ Got(r).kind = "resolved" /\ Got(r).v.t = "arr"
                          /\ Listed(Got(r)) = {Str(x) : x \in union}
                          /\ Len(Got(r).v.l) = Cardinality(union)
                  /\ Op(r) = "itemContains"
                       => Got(r) = Resolved(Bool(req[r].call.arg.s \in union))]_vars

\* addItems(s, [a,b]), addItems(s, [b,c]) and getItems(s) in a row: the
\* caller got a, b and c, each once
C11_Witness ==
  /\ scn = "members"
  /\ req[1].call = Call("addItems", SetKey, Arr(<<Str(<<"a">>), Str(<<"b">>)>>))
  /\ req[2].call = Call("addItems", SetKey, Arr(<<Str(<<"b">>), Str(<<"c">>)>>))
  /\ Done(3) /\ Op(3) = "getItems"
  /\ Result(3) = Resolved(Arr(<<Str(<<"a">>), Str(<<"b">>), Str(<<"c">>)>>))

(***************************************************************************)
(* C12: removeItems(k, R) removes from the set at k exactly the members   *)
(* of R that are there and nothing else: every other key keeps its entry, *)
(* no entry is created or removed, a call whose members are all missing   *)
(* (a repeated call, or k absent) leaves the store as it was, and the     *)
(* call is acknowledged successfully.                                     *)
(***************************************************************************)
C12_RemoveItems ==
  [][\A r \in Reqs :
       (Finishes(r) /\ Op(r) = "removeItems")
         => LET k == req[r].call.key
            IN /\ DOMAIN store' = DOMAIN store
               /\ \A x \in DOMAIN store \ {k} : store'[x] = store[x]
               /\ MembersAt(store', k) = MembersAt(store, k) \ ItemsOf(r)
               /\ (ItemsOf(r) \cap MembersAt(store, k) = {}) => store' = store
               /\ req'[r].resp.status = 200
               /\ Got(r) = Resolved(Undef)]_vars

\* removeItems(s, [a]) on the absent key, then addItems(s, [a,b]), then
\* removeItems(s, [b,c]): all acknowledged, and a alone is left
C12_Witness ==
  /\ scn = "members"
  /\ req[1].call = Call("removeItems", SetKey, Arr(<<Str(<<"a">>)>>))
  /\ req[2].call = Call("addItems", SetKey, Arr(<<Str(<<"a">>), Str(<<"b">>)>>))
  /\ req[3].call = Call("removeItems", SetKey, Arr(<<Str(<<"b">>), Str(<<"c">>)>>))
  /\ Done(3) /\ Result(1) = Resolved(Undef) /\ Result(3) = Resolved(Undef)
  /\ store = (SetKey :> SetV(<< <<"a">> >>))

(***************************************************************************)
(* C13: absence is a value, never an error.  An operation that finds no   *)
(* entry at its key is answered with status 200 and the adapter resolves  *)
(* with the empty result: null for get and getAndSet, null at that        *)
(* position for getMany, the empty list for getItems and for a            *)
(* getKeysByPrefix without match, false for itemContains, the             *)
(* acknowledgment for del and removeItems, which leave the store as it    *)
(* was.                                                                   *)
(***************************************************************************)
C13_AbsenceIsAValue ==
  [][\A r \in Reqs :
       Answered(r) =>
         LET op == req'[r].call.op
             k == req'[r].call.key
             read == req'[r].tmp
             ok == req'[r].resp.kind = "response" /\ req'[r].resp.status = 200
         IN /\ (op \in {"get", "getAndSet"} /\ read.t = "undef")
                 => ok /\ Got(r) = Resolved(Null)
            /\ op = "getMany"
                 => /\ ok /\ Got(r).kind = "resolved"
                    /\ \A i \in DOMAIN read.l :
                         read.l[i].t = "undef" => Got(r).v.l[i] = Null
            /\ (op = "getItems" /\ read.t = "undef")
                 => ok /\ Got(r) = Resolved(Arr(<<>>))
            /\ (op = "itemContains" /\ read.t = "undef")
                 => ok /\ Got(r) = Resolved(Bool(FALSE))
            /\ (op = "getKeysByPrefix" /\ read.l = <<>>)
                 => ok /\ Got(r) = Resolved(Arr(<<>>))
            /\ (op = "del" /\ k \notin DOMAIN store)
                 => ok /\ Got(r) = Resolved(Bool(TRUE)) /\ store' = store
            /\ (op = "removeItems" /\ read.t = "undef")
                 => ok /\ Got(r) = Resolved(Undef) /\ store' = store
            /\ (op \in {"incr", "decr", "incrBy", "decrBy"} /\ read.t = "undef")
                 => ok /\ Got(r).kind = "resolved"]_vars

\* on the empty store, removeItems(s, [a]), getItems(s) and
\* itemContains(s, a) in a row: acknowledged, [] and false, and the store
\* is still empty
C13_Witness ==
  /\ scn = "members"
  /\ req[1].call = Call("removeItems", SetKey, Arr(<<Str(<<"a">>)>>))
  /\ Result(1) = Resolved(Undef)
  /\ Done(2) /\ Op(2) = "getItems" /\ Result(2) = Resolved(Arr(<<>>))
  /\ Done(3) /\ Op(3) = "itemContains" /\ Result(3) = Resolved(Bool(FALSE))
  /\ store = EmptyStore

(***************************************************************************)
(* C14: getKeysByPrefix(p) returns exactly the keys that hold an entry    *)
(* (a string, the empty string included, or a set) and whose name starts  *)
(* with p, each once, whatever the order in which they were written.      *)
(***************************************************************************)
C14_KeysByPrefix ==
  \A r \in Reqs :
    (Sequential(scn) /\ Done(r) /\ Latest(r) /\ Op(r) = "getKeysByPrefix")
      => LET p == req[r].call.key
             keys == {k \in DOMAIN store :
                        /\ Len(p) <= Len(k)
                        /\ \A i \in 1..Len(p) : k[i] = p[i]}
         IN /\ req[r].resp.status = 200
            /\ Result(r).kind = "resolved" /\ Result(r).v.t = "arr"
            /\ Listed(Result(r)) = {Str(k) : k \in keys}
            /\ Len(Result(r).v.l) = Cardinality(keys)

\* u:b was written (as a set) before u:a (as a string), or after it, and
\* getKeysByPrefix("u:") returned both
C14_Witness ==
  /\ scn = "prefix"
  /\ req[1].call = Call("addItems", P2, Arr(<<Str(<<"a">>)>>))
  /\ req[2].call = Call("set", P1, Str(<<"a">>))
  /\ Done(3) /\ req[3].call = Call("getKeysByPrefix", <<"u", ":">>, Undef)
  /\ Result(3) = Resolved(Arr(<<Str(P1), Str(P2)>>))

\* getMany(keys) answered the entries of the keys, position by position
Aligned(r) ==
  LET keys == req[r].call.arg.l
  IN /\ Result(r).kind = "resolved" /\ Result(r).v.t = "arr"
     /\ Len(Result(r).v.l) = Len(keys)
     /\ \A i \in DOMAIN keys :
          Result(r).v.l[i] =
            IF keys[i].s \in DOMAIN store THEN store[keys[i].s] ELSE Null

(***************************************************************************)
(* C15: for every list of keys, the empty list and lists with repeated    *)
(* keys included, getMany(keys) returns a list of the same length whose   *)
(* i-th element is the value stored at keys[i], or null if keys[i] has no *)
(* entry.                                                                 *)
(***************************************************************************)
C15_GetManyAligned ==
  \A r \in Reqs :
    (Sequential(scn) /\ Done(r) /\ Latest(r) /\ Op(r) = "getMany") => Aligned(r)

\* the same, for the lists that name at least one key
AlignedUnlessEmptyList ==
  \A r \in Reqs :
    (/\ Sequential(scn) /\ Done(r) /\ Latest(r) /\ Op(r) = "getMany"
     /\ req[r].call.arg.l # <<>>) => Aligned(r)

\* k and k3 were set and getMany([k, k2, k3]) returned [a, null, b]
GetManyExample ==
  /\ scn = "many" /\ Done(3)
  /\ req[3].call = Call("getMany", <<>>, Arr(<<Str(K1), Str(K2), Str(K3)>>))
  /\ Result(3) = Resolved(Arr(<<Str(<<"a">>), Null, Str(<<"b">>)>>))

Reads == {"get", "getMany", "getKeysByPrefix", "getItems", "itemContains"}

\* r is the bulk reset
IsReset(r) == req[r].call = Call("fetch", DeleteAllPath, Undef)

\* every write other than d's was over before d was issued
NoWriteSince(d) ==
  \A x \in Reqs \ {d} :
    req[x].st = "idle" \/ Op(x) \in Reads \/ IsReset(x) \/ req[d].prev = x

\* what a read answers on a store without entries
EmptyAnswer(r) ==
  CASE Op(r) = "get" -> Resolved(Null)
    [] Op(r) = "getMany" -> Resolved(Arr([i \in DOMAIN req[r].call.arg.l |-> Null]))
    [] Op(r) = "itemContains" -> Resolved(Bool(FALSE))
    [] OTHER -> Resolved(Arr(<<>>))

(***************************************************************************)
(* C16: the bulk reset removes every entry in one atomic step.  Once it   *)
(* has been handled, with no write since, the store has no entry and the  *)
(* reads its caller issues next return null, no key and the empty list;   *)
(* a concurrent getMany or getKeysByPrefix, when nothing else writes,     *)
(* sees all the entries written before the reset or none of them; and     *)
(* every execution is equivalent to a sequential one in which the reset   *)
(* is one step.                                                           *)
(***************************************************************************)
C16_ResetAtomic ==
  scn = "reset" =>
    /\ \A d \in Reqs :
         (Done(d) /\ IsReset(d))
           => /\ req[d].resp.status = 200
              /\ NoWriteSince(d)
                   => /\ store = EmptyStore
                      /\ \A g \in Reqs :
                           (Done(g) /\ req[g].prev = d /\ Op(g) \in Reads)
                             => Result(g) = EmptyAnswer(g)
    /\ (\A x \in Reqs : Op(x) # "set")
         => \A g \in Reqs :
              /\ (Done(g) /\ Op(g) = "getMany")
                   => /\ Result(g).kind = "resolved"
                      /\ (Result(g).v.l[1] = Null) <=> (Result(g).v.l[2] = Null)
              /\ (Done(g) /\ Op(g) = "getKeysByPrefix")
                   => /\ Result(g).kind = "resolved"
                      /\ Listed(Result(g)) \in {{}, {Str(k) : k \in DOMAIN Loaded}}
    /\ C4_Linearizable

\* the reset was handled on the loaded store and the get(k) its caller
\* issued next returned null; the store has no entry
C16_Witness ==
  /\ scn = "reset"
  /\ K1 \in DOMAIN InitStore(scn)
  /\ Done(1) /\ IsReset(1)
  /\ Done(2) /\ req[2].call = Call("get", K1, Undef) /\ req[2].prev = 1
  /\ Result(2) = Resolved(Null)
  /\ store = EmptyStore

\* a getMany issued by another caller while the reset was in progress was
\* answered null for both keys
C16_ConcurrentRead ==
  /\ scn = "reset"
  /\ IsReset(1) /\ req[1].st = "run"
  /\ Done(2) /\ Op(2) = "getMany" /\ req[2].prev = 0
  /\ Result(2) = Resolved(Arr(<<Null, Null>>))

\* a and b are the only requests issued, b by a's caller after a finished
Pair(a, b) ==
  /\ Done(a) /\ Done(b) /\ req[a].prev = 0 /\ req[b].prev = a
  /\ \A x \in Reqs \ {a, b} : req[x].st = "idle"

\* del(k): acknowledged; the entry at k is gone and get(k) returns null; no
\* other key is touched; on an absent key nothing changes
DelRemoves ==
  \A d \in Reqs :
    (Done(d) /\ Op(d) = "del")
      => /\ req[d].resp.status = 200 /\ Result(d) = Resolved(Bool(TRUE))
         /\ (\A x \in Reqs \ {d} : req[x].st = "idle") => store = InitStore(scn)
         /\ \A a \in Reqs :
              /\ (Pair(a, d) /\ Op(a) = "set")
                   => store = IF req[a].call.key = req[d].call.key
                              THEN EmptyStore
                              ELSE (req[a].call.key :> req[a].call.arg)
              /\ (Pair(d, a) /\ Op(a) = "get" /\ req[a].call.key = req[d].call.key)
                   => Result(a) = Resolved(Null)

(***************************************************************************)
(* C17: after set(k, v), get(k) returns v; after del(k), get(k) returns   *)
(* null; del is acknowledged, also on an absent key, which leaves the     *)
(* store unchanged; del(k) affects no key other than k.                   *)
(***************************************************************************)
C17_SetGetDel ==
  /\ \A s, g \in Reqs :
       (/\ Pair(s, g) /\ Op(s) = "set" /\ Op(g) = "get"
        /\ req[g].call.key = req[s].call.key)
         => Result(g) = Resolved(req[s].call.arg)
  /\ DelRemoves

\* set(k, a) and then del(k2) by the same caller: acknowledged, and k
\* still holds a
DelExample ==
  /\ scn = "kv"
  /\ req[1].call = Call("set", K1, Str(<<"a">>))
  /\ req[2].call = Call("del", K2, Undef)
  /\ Pair(1, 2) /\ Result(2) = Resolved(Bool(TRUE))
  /\ store = (K1 :> Str(<<"a">>))

\* the operation selectors of the engine
Recognized ==
  {"/get", "/set", "/getAndSet", "/del", "/getKeysByPrefix", "/getMany",
   "/incr", "/decr", "/itemContains", "/addItems", "/removeItems",
   "/getItems", "/pushItems", "/popItems", "/getItemsCount", "/deleteAll"}

(***************************************************************************)
(* C18: a request whose path is not one of the engine's selectors is      *)
(* answered 404 "Not found" and leaves the store unchanged; every request *)
(* the adapter sends has a recognized selector and is answered with       *)
(* status 200, the handler never throwing.                                *)
(***************************************************************************)
C18_NotFound ==
  [][\A r \in Reqs :
       Answered(r) =>
         LET c == req'[r].call
             resp == req'[r].resp
         IN /\ RequestOf(c).path \notin Recognized
                 => /\ resp.kind = "response" /\ resp.status = 404
                    /\ resp.body = NotFoundText
                    /\ store' = store
            /\ c.op # "fetch"
                 => /\ RequestOf(c).path \in Recognized
                    /\ resp.kind = "response" /\ resp.status = 200]_vars

\* after set(k, a), a request for /unknown was answered 404 and k still
\* holds a
C18_Witness ==
  /\ scn = "paths"
  /\ req[1].call = Call("set", K1, Str(<<"a">>)) /\ Done(1)
  /\ req[1].resp.status = 200
  /\ req[2].call = Call("fetch", "/unknown", Undef) /\ Done(2)
  /\ req[2].resp = NotFound
  /\ store = (K1 :> Str(<<"a">>))

\* the engine addressed by `param` answered 404 as well
NotFoundByParamEngine ==
  /\ scn = "delta" /\ VariantOf(scn) = "param"
  /\ \E r \in Reqs : Done(r) /\ Op(r) = "fetch" /\ req[r].resp = NotFound

\* one call of each operation of the adapter that sends a request
AdapterCalls ==
  {Call("get", K1, Undef), Call("set", K1, Str(<<"a">>)),
   Call("getAndSet", K1, Str(<<"a">>)), Call("del", K1, Undef),
   Call("getKeysByPrefix", K1, Undef), Call("getMany", <<>>, Arr(<<Str(K1)>>)),
   Call("incr", CounterKey, Undef), Call("decr", CounterKey, Undef),
   Call("itemContains", SetKey, Str(<<"a">>)),
   Call("addItems", SetKey, Arr(<<Str(<<"a">>)>>)),
   Call("removeItems", SetKey, Arr(<<Str(<<"a">>)>>)),
   Call("getItems", SetKey, Undef)}

(***************************************************************************)
(* C19: every failure surfaces as a rejected operation: whenever the      *)
(* engine's answer is not a success (a 404, or the handler threw), the    *)
(* promise of the adapter operation that receives this answer rejects,    *)
(* whichever operation it is; none resolves with false or with no value.  *)
(***************************************************************************)
C19_FailuresReject ==
  \A r \in Reqs :
    (VariantOf(scn) = "key" /\ Done(r) /\ ~ResponseOk(req[r].resp))
      => \A c \in AdapterCalls : WrapperResult(c, req[r].resp) = Rejected

\* the same, for the operations that decode the response body
FailuresRejectWhenDecoded ==
  \A r \in Reqs :
    (VariantOf(scn) = "key" /\ Done(r) /\ ~ResponseOk(req[r].resp))
      => \A c \in AdapterCalls :
           c.op \notin {"set", "del", "addItems", "removeItems"}
             => WrapperResult(c, req[r].resp) = Rejected

(***************************************************************************)
(* C20: connect fails if and only if the adapter was built without a      *)
(* handle; connect and disconnect send no request to the engine (they     *)
(* settle at once, with no response awaited) and leave the store and the  *)
(* engine as they are, in every state; disconnect always succeeds.        *)
(***************************************************************************)
C20_ConnectDisconnect ==
  [][\A r \in Reqs :
       (/\ req[r].st = "idle" /\ req'[r].st # "idle"
        /\ req'[r].call.op \in {"connect", "disconnect"})
         => LET got == LocalResult(HandleOf(scn), req'[r].call)
            IN /\ req'[r].st = "local" /\ req'[r].resp = NoResp
               /\ store' = store /\ gate' = gate
               /\ \A x \in Reqs \ {r} : req'[x] = req[x]
               /\ req'[r].call.op = "connect"
                    => /\ (got = Rejected) <=> ~HandleOf(scn)
                       /\ (got = Resolved(Undef)) <=> HandleOf(scn)
               /\ req'[r].call.op = "disconnect" => got = Resolved(Undef)]_vars

\* built without a handle: connect was rejected, the disconnect that
\* followed resolved, and nothing was sent
C20_Witness ==
  /\ scn = "nohandle" /\ ~HandleOf(scn)
  /\ req[1].st = "local" /\ Op(1) = "connect" /\ Result(1) = Rejected
  /\ req[2].st = "local" /\ Op(2) = "disconnect" /\ Result(2) = Resolved(Undef)
  /\ \A r \in Reqs : req[r].resp = NoResp
  /\ store = EmptyStore

\* built with a handle: after set(k, a), connect resolved and k holds a
ConnectWithHandle ==
  /\ scn = "paths" /\ HandleOf(scn)
  /\ Done(1) /\ Op(1) = "set"
  /\ req[2].st = "local" /\ Op(2) = "connect" /\ Result(2) = Resolved(Undef)
  /\ store = (K1 :> Str(<<"a">>))

(***************************************************************************)
(* C21: queue operations are permanent no-ops.  In every state, whatever  *)
(* was pushed before, the adapter's popItems resolves with the empty list *)
(* and getItemsCount with 0, pushItems resolves with no value, and none   *)
(* of them sends a request; the engine answers its queue selectors with   *)
(* nothing, [] and 0, and the store holds what set wrote and nothing      *)
(* else.                                                                  *)
(***************************************************************************)
C21_QueueNoOps ==
  /\ \A r \in Reqs :
       /\ Op(r) \in {"pushItems", "popItems", "getItemsCount"}
            => /\ req[r].st = "local" /\ req[r].resp = NoResp
               /\ Op(r) = "pushItems" => Result(r) = Resolved(Undef)
               /\ Op(r) = "popItems" => Result(r) = Resolved(Arr(<<>>))
               /\ Op(r) = "getItemsCount" => Result(r) = Resolved(Num(0))
       /\ (Op(r) = "fetch" /\ req[r].call.key \in QueuePaths)
            => /\ Done(r) /\ req[r].resp.status = 200
               /\ req[r].call.key = "/pushItems" => req[r].resp.body = <<>>
               /\ req[r].call.key = "/popItems" => req[r].resp.body = <<"[", "]">>
               /\ req[r].call.key = "/getItemsCount" => req[r].resp.body = <<"0">>
  /\ scn = "queue"
       => store = IF DoneOf("set") # {} THEN (QueueKey :> Str(<<"a">>))
                  ELSE EmptyStore

\* a caller pushed an item and then asked for the count: 0, and nothing
\* was sent or stored
C21_Witness ==
  /\ scn = "queue"
  /\ req[1].st = "local" /\ Op(1) = "pushItems"
  /\ req[2].st = "local" /\ Op(2) = "getItemsCount" /\ req[2].prev = 1
  /\ Result(2) = Resolved(Num(0))
  /\ store = EmptyStore

\* the engine's /pushItems was handled after set(q, a): q still holds a
QueueSelectorExample ==
  /\ scn = "queue"
  /\ Done(1) /\ Op(1) = "set"
  /\ Done(2) /\ req[2].call = Call("fetch", "/pushItems", Undef)
  /\ store = (QueueKey :> Str(<<"a">>))

(***************************************************************************)
(* The operation table read as a sequential specification: a store of     *)
(* entries, each a string, an integer or a set of strings, and one atomic *)
(* step per operation.  Acknowledgments carry no value.                   *)
(***************************************************************************)
Ack == [t |-> "ack"]
Members(S) == [t |-> "members", m |-> S]
Keys(S) == [t |-> "keys", m |-> S]

TableEntry(v) == IF v.t = "set" THEN Members(Range(v.m)) ELSE v
TableStore(st) == [k \in DOMAIN st |-> TableEntry(st[k])]

TableValue(t, k) == IF k \in DOMAIN t THEN t[k] ELSE Null
TableMembers(t, k) == IF k \in DOMAIN t THEN t[k].m ELSE {}
TableInt(t, k) == IF k \in DOMAIN t THEN t[k].n ELSE 0
TablePut(t, k, v) == [x \in DOMAIN t \cup {k} |-> IF x = k THEN v ELSE t[x]]
TableDrop(t, k) == [x \in DOMAIN t \ {k} |-> t[x]]
TableOut(t, result) == [store |-> t, result |-> result]

ArgItems(c) == {c.arg.l[i].s : i \in DOMAIN c.arg.l}

TableStep(t, c) ==
  CASE c.op = "get" -> TableOut(t, TableValue(t, c.key))
    [] c.op = "set" -> TableOut(TablePut(t, c.key, c.arg), Ack)
    [] c.op = "getAndSet" ->
         TableOut(TablePut(t, c.key, c.arg), TableValue(t, c.key))
    [] c.op = "del" -> TableOut(TableDrop(t, c.key), Ack)
    [] c.op = "getKeysByPrefix" ->
         TableOut(t, Keys({k \in DOMAIN t : IsPrefix(c.key, k)}))
    [] c.op = "getMany" ->
         TableOut(t, Arr([i \in DOMAIN c.arg.l |-> TableValue(t, c.arg.l[i].s)]))
    [] c.op = "incr" ->
         TableOut(TablePut(t, c.key, Num(TableInt(t, c.key) + 1)),
                  Num(TableInt(t, c.key) + 1))
    [] c.op = "decr" ->
         TableOut(TablePut(t, c.key, Num(TableInt(t, c.key) - 1)),
                  Num(TableInt(t, c.key) - 1))
    [] c.op = "itemContains" ->
         TableOut(t, Bool(c.arg.s \in TableMembers(t, c.key)))
    [] c.op = "addItems" ->
         TableOut(TablePut(t, c.key,
                           Members(TableMembers(t, c.key) \cup ArgItems(c))), Ack)
    [] c.op = "removeItems" ->
         TableOut(IF c.key \in DOMAIN t
                  THEN TablePut(t, c.key, Members(TableMembers(t, c.key) \ ArgItems(c)))
                  ELSE t, Ack)
    [] c.op = "getItems" -> TableOut(t, Members(TableMembers(t, c.key)))

\* what the caller of r saw, in the table's terms
Seen(r) ==
  LET got == Result(r)
  IN CASE got.kind # "resolved" -> got
       [] Op(r) \in {"set", "del", "addItems", "removeItems"} -> Ack
       [] Op(r) = "getKeysByPrefix" /\ got.v.t = "arr" ->
            Keys({got.v.l[i].s : i \in DOMAIN got.v.l})
       [] Op(r) = "getItems" /\ got.v.t = "arr" ->
            Members({got.v.l[i].s : i \in DOMAIN got.v.l})
       [] OTHER -> got.v

RECURSIVE TableRun(_, _)
\* the table, stepped through requests i, i+1, ... in the order of issue
\* from t, gives every request what its caller saw and ends in the
\* present store
TableRun(i, t) ==
  IF i \notin Reqs \/ req[i].st = "idle" THEN t = TableStore(store)
  ELSE LET out == TableStep(t, req[i].call)
       IN Seen(i) = out.result /\ TableRun(i + 1, out.store)

InIssuanceOrder == TableRun(1, TableStore(InitStore(scn)))

(***************************************************************************)
(* C22: a single caller who awaits each response before issuing the next  *)
(* operation sees its operations take effect in the order of issue: each  *)
(* result and the store are those of the operation table stepped through  *)
(* the caller's calls in that order, writes the engine did not await      *)
(* (set, del, the put of incr and addItems) included.                     *)
(***************************************************************************)
C22_IssuanceOrder ==
  (scn = "order" /\ Quiescent) => InIssuanceOrder

\* set(k, a), set(k, b), get(k): the caller reads b
C22_Witness ==
  /\ scn = "order"
  /\ \A r \in 1..3 : Done(r)
  /\ req[1].call = Call("set", K1, Str(<<"a">>))
  /\ req[2].call = Call("set", K1, Str(<<"b">>))
  /\ req[3].call = Call("get", K1, Undef)
  /\ Result(3) = Resolved(Str(<<"b">>))

\* set(k, a), del(k), get(k): the caller finds nothing
DelThenGetExample ==
  /\ scn = "order"
  /\ \A r \in 1..3 : Done(r)
  /\ req[1].call = Call("set", K1, Str(<<"a">>))
  /\ req[2].call = Call("del", K1, Undef)
  /\ req[3].call = Call("get", K1, Undef)
  /\ Result(3) = Resolved(Null)

(***************************************************************************)
(* C23: the adapter and the engine agree on the message protocol.  A      *)
(* client driving the engine through the adapter, one operation after     *)
(* another, observes for every operation and every argument the results   *)
(* and the store of the operation table applied directly.                 *)
(***************************************************************************)
C23_ProtocolAgrees ==
  (Sequential(scn) /\ Quiescent) => InIssuanceOrder

\* the agreement, for key lists that are not empty and keys without
\* characters that a URL reserves
AgreesUnlessEmptyList ==
  (/\ Sequential(scn) /\ scn # "encode" /\ Quiescent
   /\ \A r \in Reqs : Op(r) = "getMany" => req[r].call.arg.l # <<>>)
    => InIssuanceOrder

\* getMany([]) went through the adapter and came back as [null]
EmptyListExample ==
  /\ scn = "many"
  /\ Done(1) /\ req[1].call = Call("getMany", <<>>, Arr(<<>>))
  /\ Result(1) = Resolved(Arr(<<Null>>))
  /\ TableStep(TableStore(EmptyStore), req[1].call).result = Arr(<<>>)

(***************************************************************************)
(* C24: correctness does not depend on awaiting write acknowledgments.    *)
(* A caller who issues set, addItems or removeItems without awaiting the  *)
(* acknowledgment and then issues further operations still has them take  *)
(* effect in the order of issue: a later get returns the value set, a     *)
(* later write is not overwritten by the earlier one.                     *)
(***************************************************************************)
C24_NoAwaitNeeded ==
  (NoAwait(scn) /\ Quiescent) => InIssuanceOrder

\* set(k, a) not awaited, then get(k): the caller reads nothing
UnawaitedSetExample ==
  /\ NoAwait(scn)
  /\ Done(1) /\ req[1].call = Call("set", K1, Str(<<"a">>))
  /\ Done(2) /\ req[2].call = Call("get", K1, Undef) /\ req[2].prev = 1
  /\ Result(2) = Resolved(Null)

\* set(k, a) not awaited, then del(k): in the end k holds a
OverwrittenExample ==
  /\ NoAwait(scn) /\ Quiescent
  /\ req[1].call = Call("set", K1, Str(<<"a">>))
  /\ req[2].call = Call("del", K1, Undef) /\ req[2].prev = 1
  /\ Latest(2)
  /\ StorageGet(store, K1) = Str(<<"a">>)

\* r is the request that took the step
Acts(r) == req'[r] # req[r]

(***************************************************************************)
(* C25: an entry exists from its first write until a del of its key or a  *)
(* bulk reset, and nothing else removes it.  removeItems never removes a  *)
(* key: after it removed the last member, the key still holds an (empty)  *)
(* set entry, getKeysByPrefix still returns the key and getItems returns  *)
(* the empty list.                                                        *)
(***************************************************************************)
C25_EntryLifetime ==
  [][/\ \A k \in DOMAIN store \ DOMAIN store' :
          \E r \in Reqs :
            /\ Acts(r)
            /\ \/ req'[r].call = Call("del", k, Undef)
               \/ req'[r].call = Call("fetch", DeleteAllPath, Undef)
     /\ \A r \in Reqs :
          /\ (Finishes(r) /\ Op(r) = "removeItems" /\ req[r].call.key \in DOMAIN store)
               => /\ req[r].call.key \in DOMAIN store'
                  /\ store'[req[r].call.key].t = "set"
          /\ (Sequential(scn) /\ Answered(r)
              /\ req'[r].call = Call("getKeysByPrefix", <<>>, Undef))
               => Listed(Got(r)) = {Str(k) : k \in DOMAIN store}
          /\ (Sequential(scn) /\ Answered(r) /\ req'[r].call.op = "getItems"
              /\ StorageGet(store, req'[r].call.key) = SetV(<<>>))
               => Got(r) = Resolved(Arr(<<>>))]_vars

\* addItems(s, [a]), removeItems(s, [a]), getKeysByPrefix(""): s is listed
\* and holds the empty set
C25_Witness ==
  /\ scn = "members"
  /\ \A r \in 1..3 : Done(r)
  /\ req[1].call = Call("addItems", SetKey, Arr(<<Str(<<"a">>)>>))
  /\ req[2].call = Call("removeItems", SetKey, Arr(<<Str(<<"a">>)>>))
  /\ req[3].call = Call("getKeysByPrefix", <<>>, Undef)
  /\ Result(3) = Resolved(Arr(<<Str(SetKey)>>))
  /\ store = (SetKey :> SetV(<<>>))

\* the same, read with getItems: the empty list
EmptySetExample ==
  /\ scn = "members"
  /\ \A r \in 1..3 : Done(r)
  /\ req[1].call = Call("addItems", SetKey, Arr(<<Str(<<"a">>)>>))
  /\ req[2].call = Call("removeItems", SetKey, Arr(<<Str(<<"a">>)>>))
  /\ req[3].call = Call("getItems", SetKey, Undef)
  /\ Result(3) = Resolved(Arr(<<>>))
  /\ SetKey \in DOMAIN store

\* the operations whose declared result is an acknowledgment
Void(c) ==
  \/ c.op \in {"set", "del", "addItems", "removeItems"}
  \/ c.op = "fetch" /\ c.key \in {"/pushItems", DeleteAllPath}

\* text is the JSON encoding of a value of the type declared for c; an
\* absent string is encoded as null or as nothing
Encodes(c, text) ==
  LET p == JSONparse(text)
      ListOf(types) == /\ p.ok /\ p.v.t = "arr"
                       /\ \A i \in DOMAIN p.v.l : p.v.l[i].t \in types
  IN CASE c.op \in {"get", "getAndSet"} ->
            text = <<>> \/ (p.ok /\ p.v.t \in {"str", "null"})
       [] c.op \in {"incr", "decr"} -> p.ok /\ p.v.t = "num"
       [] c.op = "itemContains" -> p.ok /\ p.v.t = "bool"
       [] c.op \in {"getKeysByPrefix", "getItems"} -> ListOf({"str"})
       [] c.op = "getMany" -> ListOf({"str", "null"})
       [] OTHER -> TRUE

EncodedAsDeclared(r) ==
  IF Void(req[r].call) THEN req[r].resp.body = <<>>
  ELSE Encodes(req[r].call, req[r].resp.body)

(***************************************************************************)
(* C26: response encoding.  In every state, an operation whose declared   *)
(* result is an acknowledgment (set, del, addItems, removeItems,          *)
(* pushItems, deleteAll) is answered with an empty body, and an operation *)
(* with a result is answered with the JSON encoding of a value of its     *)
(* declared type.                                                         *)
(***************************************************************************)
C26_ResponseEncoding ==
  \A r \in Reqs :
    (VariantOf(scn) = "key" /\ Done(r) /\ req[r].resp.status = 200)
      => EncodedAsDeclared(r)

\* the encoding, for every operation but addItems and removeItems
EncodedUnlessSetUpdate ==
  \A r \in Reqs :
    (/\ VariantOf(scn) = "key" /\ Done(r) /\ req[r].resp.status = 200
     /\ Op(r) \notin {"addItems", "removeItems"})
      => EncodedAsDeclared(r)

\* addItems was answered with the text {}
SetUpdateBodyExample ==
  \E r \in Reqs :
    /\ Done(r) /\ Op(r) = "addItems"
    /\ req[r].resp = [kind |-> "response", status |-> 200, body |-> <<"{", "}">>]

\* removeItems on a key without entry was answered with an empty body
RemoveAbsentExample ==
  /\ scn = "members"
  /\ Done(1) /\ Op(1) = "removeItems" /\ req[1].resp.body = <<>>

\* the counter values the callers of the finished requests of D received
Received(D) == {Result(r).v.n : r \in D}

(***************************************************************************)
(* C27: in every interleaving of N concurrent incr(k) on one instance,    *)
(* starting from k absent, the responses are pairwise distinct and are    *)
(* exactly 1..N: no two callers receive the same counter value.           *)
(* Symmetrically N concurrent decr(k) return exactly -1..-N.              *)
(***************************************************************************)
C27_DistinctCounterValues ==
  scn = "counter" =>
    /\ (\A x \in Reqs : req[x].st # "idle" => Op(x) = "incr")
         => /\ \A r \in DoneOf("incr") : Result(r).kind = "resolved"
            /\ Received(DoneOf("incr")) = 1..Cardinality(DoneOf("incr"))
    /\ (\A x \in Reqs : req[x].st # "idle" => Op(x) = "decr")
         => /\ \A r \in DoneOf("decr") : Result(r).kind = "resolved"
            /\ Received(DoneOf("decr")) =
                 {0 - i : i \in 1..Cardinality(DoneOf("decr"))}

\* N callers each issued one incr and received 1..N between them
C27_Witness ==
  /\ scn = "counter"
  /\ \A r \in Reqs : Done(r) /\ Op(r) = "incr" /\ req[r].prev = 0
  /\ Received(Reqs) = 1..MaxCounterReq
  /\ \A a, b \in Reqs : a # b => Result(a) # Result(b)

\* N callers each issued one decr and received -1..-N between them
DecrValuesExample ==
  /\ scn = "counter"
  /\ \A r \in Reqs : Done(r) /\ Op(r) = "decr" /\ req[r].prev = 0
  /\ Received(Reqs) = {0 - i : i \in 1..MaxCounterReq}

\* the engine that awaits a body first: the values are distinct as well
DistinctWhenBodyAwaited ==
  (/\ scn = "delta"
   /\ \A x \in Reqs : req[x].st # "idle" => req[x].call = Call("incrBy", CounterKey, Undef))
    => Received(DoneOf("incrBy")) = 1..Cardinality(DoneOf("incrBy"))

\* there the later request can receive the smaller value
OvertakenExample ==
  /\ scn = "delta"
  /\ \A r \in 1..2 : Done(r) /\ req[r].call = Call("incrBy", CounterKey, Undef)
  /\ Result(1) = Resolved(Num(2)) /\ Result(2) = Resolved(Num(1))

(***************************************************************************)
(* C28: pure reads have no effect on the store.  Every step of handling   *)
(* get, getMany, getKeysByPrefix, itemContains or getItems, on present or *)
(* absent keys and whatever else is in flight, leaves every entry as it   *)
(* was and creates none.                                                  *)
(***************************************************************************)
C28_ReadsChangeNothing ==
  [][\A r \in Reqs :
       (Acts(r) /\ req'[r].call.op \in Reads) => store' = store]_vars

\* getItems and get were answered for keys without entry, while a set was
\* in flight: the store is still empty
C28_Witness ==
  /\ scn = "noawait"
  /\ req[1].st = "run" /\ Op(1) = "set"
  /\ Done(2) /\ Op(2) \in {"get", "getItems"}
  /\ store = EmptyStore

\* every read of the reset scenario was answered on the loaded store
ReadsOfLoadedExample ==
  /\ scn = "reset"
  /\ \A r \in Reqs : Done(r) /\ Op(r) \in Reads
  /\ store = Loaded

(***************************************************************************)
(* C29: the adapter's encoding of keys into requests is injective and     *)
(* faithful.  For every key k, keys containing , & = # + or % included,   *)
(* an operation on k reads or writes the entry named exactly k: the store *)
(* holds exactly the keys that were set, get(k) returns what the entry    *)
(* named k holds, and getMany returns one value per key of its list, the  *)
(* value of the entry of that name.                                       *)
(***************************************************************************)
C29_KeysFaithful ==
  scn = "encode" =>
    /\ DOMAIN store = {req[r].call.key : r \in DoneOf("set")}
    /\ \A r \in DoneOf("get") :
         Latest(r) => Result(r) = Resolved(TableValue(store, req[r].call.key))
    /\ \A r \in DoneOf("getMany") :
         Latest(r) =>
           Result(r) = Resolved(Arr([i \in DOMAIN req[r].call.arg.l |->
                                       TableValue(store, req[r].call.arg.l[i].s)]))

\* set("a#b", b) wrote the entry named a, and get("a") reads it
FragmentKeyExample ==
  /\ scn = "encode"
  /\ Done(1) /\ req[1].call = Call("set", <<"a", "#", "b">>, Str(<<"b">>))
  /\ Done(2) /\ req[2].call = Call("get", PlainKey, Undef)
  /\ Result(2) = Resolved(Str(<<"b">>))
  /\ DOMAIN store = {PlainKey}

\* set("a+b", b) wrote the entry named "a b"; set("a%2Cb", b) the entry
\* named "a,b"
DecodedKeyExample ==
  /\ scn = "encode"
  /\ Done(1) /\ req[1].call = Call("set", <<"a", "+", "b">>, Str(<<"b">>))
  /\ Done(2) /\ req[2].call = Call("set", <<"a", "%", "2", "C", "b">>, Str(<<"b">>))
  /\ DOMAIN store = {<<"a", " ", "b">>, CommaKey}

\* getMany(["a,b"]) was answered with two values
SplitKeyExample ==
  /\ scn = "encode"
  /\ Done(1) /\ req[1].call = Call("getMany", <<>>, Arr(<<Str(CommaKey)>>))
  /\ Result(1) = Resolved(Arr(<<Null, Null>>))

\* a key with = in it is carried as it is
EqualsSignFaithful ==
  scn = "encode" =>
    \A r \in DoneOf("set") :
      req[r].call.key \in {PlainKey, <<"a", "=", "b">>}
        => req[r].call.key \in DOMAIN store

(***************************************************************************)
(* C30: every request dispatched to the instance is eventually answered.  *)
(* Under fair delivery of the instance's events, for concurrent requests  *)
(* of any mix of operations, each handler that has started returns a      *)
(* response, and a closed input gate opens again, so that no request is   *)
(* left waiting for ever.                                                 *)
(***************************************************************************)
C30_EventuallyAnswered ==
  /\ \A r \in 1..MaxMixReq : (req[r].st = "run") ~> (req[r].st = "done")
  /\ (gate # 0) ~> (gate = 0)

\* a getAndSet holds the gate for its read while a set awaits its body
C30_Witness ==
  /\ scn = "mix"
  /\ req[1].st = "run" /\ Op(1) = "set" /\ req[1].pc = "body"
  /\ req[2].st = "run" /\ Op(2) = "getAndSet" /\ gate = 2

\* all requests of the mix were answered
AllAnsweredExample ==
  /\ scn = "mix"
  /\ \A r \in Reqs : Done(r) /\ Op(r) \in {"getAndSet", "incr", "addItems"}
  /\ gate = 0

=============================================================================
